---- MODULE Spec2Model ----
(***************************************************************************)
(* Model of lib/ansible/plugins/inventory/kubernetes.py: the inventory     *)
(* plugin that walks contexts -> namespaces -> pods -> containers, adds    *)
(* hosts and groups to the inventory, and groups pods by service endpoint. *)
(*                                                                         *)
(* Python values are modelled as follows.  A dict is a record whose DOMAIN *)
(* is the set of keys that are present.  An API object is a record; an     *)
(* attribute whose value is None is an absent field (labels, subsets,      *)
(* target_ref).  Strings are TLA+ strings, so "{0}_{1}".format and the     *)
(* substring test `x in y` are computed character by character.  The code  *)
(* is Python 2 (dict.iteritems, e.message), where e.message exists on      *)
(* every exception, so each except clause completes by calling _fail.     *)
(***************************************************************************)
EXTENDS Integers, Sequences, FiniteSets, TLC

(***************************************************************************)
(* Bounds of the model.                                                    *)
(***************************************************************************)
MaxContexts == 2
MaxNamespaces == 3

(***************************************************************************)
(* Python helpers.                                                         *)
(***************************************************************************)
None == "<None>"

\* dict.get(key, default)
Get(d, key, default) == IF key \in DOMAIN d THEN d[key] ELSE default

\* needle in s, for strings
Contains(s, needle) ==
    \E i \in 1..(Len(s) - Len(needle) + 1) :
        SubSeq(s, i, i + Len(needle) - 1) = needle

\* All sequences over S of length at most n.
SeqsUpTo(S, n) == UNION {[1..k -> S] : k \in 0..n}

(***************************************************************************)
(* Inputs: what the configuration loader and the cluster API can hand to   *)
(* the plugin.  Names follow the Kubernetes rules for object names, which  *)
(* exclude the underscore.                                                 *)
(***************************************************************************)
ContextPool ==
    { [name |-> "local", local_kube_config |-> TRUE,
       kubernetes_config_file |-> "/etc/kube.cfg", namespaces |-> <<"ns1">>],
      [name |-> "file", local_kube_config |-> FALSE,
       kubernetes_config_file |-> "/etc/kube.cfg", username |-> "dev",
       server |-> "k8s", namespaces |-> <<"ns1", "ns2">>],
      [name |-> "inline", local_kube_config |-> FALSE, server |-> "k8s",
       port |-> 6443, token |-> "t0k", username |-> "admin",
       namespaces |-> <<"ns2">>],
      [name |-> "inline-empty", local_kube_config |-> FALSE, server |-> "k8s",
       port |-> 6443, token |-> "t0k", namespaces |-> <<>>],
      [name |-> "local-empty", local_kube_config |-> TRUE,
       namespaces |-> <<>>],
      [name |-> "file-empty", local_kube_config |-> FALSE,
       kubernetes_config_file |-> "/etc/kube.cfg", namespaces |-> <<>>] }

\* the number of namespaces a list of contexts names
RECURSIVE TotalNamespaces(_)
TotalNamespaces(cs) ==
    IF cs = <<>> THEN 0
    ELSE Len(Head(cs).namespaces) + TotalNamespaces(Tail(cs))

\* config_data as returned by loader.load_from_file
Configs ==
    { [contexts |-> cs] :
        cs \in {s \in SeqsUpTo(ContextPool, MaxContexts) :
                   TotalNamespaces(s) <= MaxNamespaces} }
    \cup { [plugin |-> "kubectl", contexts |-> <<c>>] : c \in ContextPool }
    \cup { [plugin |-> "kubectl"] }

Meta(n) == [name |-> n]
MetaL(n, l) == [name |-> n, labels |-> l]
Containers(cs) == [containers |-> cs]

\* V1Pod objects: metadata.name, metadata.labels (absent = None), spec.containers
Web1 == [metadata |-> MetaL("web-1", {<<"app", "web">>}),
         spec |-> Containers(<<[name |-> "app"]>>)]
WebBuild1 == [metadata |-> MetaL("web-build-1", {<<"app", "web">>}),
              spec |-> Containers(<<[name |-> "app"]>>)]
Web2 == [metadata |-> MetaL("web-2", {}),
         spec |-> Containers(<<[name |-> "app"], [name |-> "side"]>>)]
Job1 == [metadata |-> MetaL("job-1", {<<"tier", "db">>}),
         spec |-> Containers(<<>>)]
Db1 == [metadata |-> Meta("db-1"),
        spec |-> Containers(<<[name |-> "app"]>>)]

\* pods.items as list_namespaced_pod can return it
PodListings ==
    { <<WebBuild1, Web1>>, <<Job1, Web2>>, <<Db1, Web1>> }

Ref(k, n) == [target_ref |-> [kind |-> k, name |-> n]]
NoRef == [ip |-> "10.0.0.9"]

\* V1Endpoints objects: metadata.name, subsets (absent = None)
WebSvc == [metadata |-> Meta("web-svc"),
           subsets |-> << [addresses |-> <<NoRef, Ref("Pod", "web-1")>>] >>]
ExtSvc == [metadata |-> Meta("ext-svc"),
           subsets |-> << [addresses |-> <<Ref("PodTemplate", "tmpl-1")>>],
                          [addresses |-> <<Ref("Node", "node-1"),
                                           Ref("Pod", "web-2")>>] >>]
IdleSvc == [metadata |-> Meta("idle-svc")]

\* endpoints.items as list_namespaced_endpoints can return it
EndpointListings ==
    { <<WebSvc, ExtSvc>>, <<IdleSvc, WebSvc>> }

VARIABLES
    pc,          \* position of the run: parse, populate, connect, pods,
                 \* endpoints, done, raised
    config,      \* config_data
    plugin,      \* self.plugin
    ci,          \* index of the context the loop of _populate is at
    ni,          \* index of the namespace the inner loop is at
    api,         \* self.api: 0 while the attribute is unset, else the index
                 \* of the context whose _connect assigned it
    inventory,   \* self.inventory, with the journal of the calls made to it
    display,     \* the messages handed to display.error
    connects,    \* journal of _connect: outcome per context attempted
    api_calls,   \* journal of the listing calls made on self.api
    returned,    \* journal of the pods and endpoints the listings returned
    loads        \* journal of the credential loaders _connect called

vars == <<pc, config, plugin, ci, ni, api, inventory, display, connects,
          api_calls, returned, loads>>

(***************************************************************************)
(* The inventory sink (ansible.inventory.data.InventoryData).  Its code is *)
(* not part of the plugin file; it is modelled from the contract the       *)
(* plugin relies on: groups and children are sets, every operation is      *)
(* idempotent and none raises.  The record also carries two journals:      *)
(* origin (which pod and container each add_host came from) and            *)
(* service_children (which address each service child came from).          *)
(***************************************************************************)
EmptyInventory ==
    [hosts |-> {}, groups |-> {}, children |-> {}, vars |-> <<>>,
     origin |-> {}, service_children |-> {}]

add_group(inv, group) == [inv EXCEPT !.groups = @ \cup {group}]

add_child(inv, group, child) ==
    [inv EXCEPT !.children = @ \cup {<<group, child>>}]

add_host(inv, host) ==
    [inv EXCEPT !.hosts = @ \cup {host},
                !.vars = [h \in DOMAIN @ \cup {host} |->
                             IF h \in DOMAIN @ THEN @[h] ELSE <<>>]]

set_variable(inv, host, varname, value) ==
    [inv EXCEPT !.vars[host] =
        [v \in DOMAIN @ \cup {varname} |-> IF v = varname THEN value ELSE @[v]]]

(***************************************************************************)
(* The plugin's helpers.                                                   *)
(***************************************************************************)
\* _fail: display.error(msg)
fail(d, where, error) ==
    Append(d, [raised_in |-> where, error |-> error, ctx |-> ci])

\* _groupadd that creates the group and forgets the child
groupadd_GroupOnly(inv, group_name, child_name) == add_group(inv, group_name)

\* _groupadd
groupadd(inv, group_name, child_name) ==
    add_child(add_group(inv, group_name), group_name, child_name)

\* a host key built from the container name alone
HostKey_ContainerOnly(container_name, pod_name) == container_name

\* "{0}_{1}".format(container.name, pod.metadata.name)
HostKey(container_name, pod_name) == container_name \o "_" \o pod_name

\* "{0}_{1}".format(key, val)
LabelGroup(key, val) == key \o "_" \o val

\* a filter that tests pod.metadata.name.endswith("-build")
IsBuildPod_SuffixOnly(pod_name) ==
    /\ Len(pod_name) >= 6
    /\ SubSeq(pod_name, Len(pod_name) - 5, Len(pod_name)) = "-build"

\* "-build" in pod.metadata.name
IsBuildPod(pod_name) == Contains(pod_name, "-build")

\* a.target_ref and "Pod" in a.target_ref.kind
IsPodAddress(a) ==
    /\ "target_ref" \in DOMAIN a
    /\ Contains(a.target_ref.kind, "Pod")

\* _hostvars, with self.inventory_hostname passed as hostname
hostvars(inv, hostname, namespace, pod_name, container_name, context) ==
    LET v0 == add_host(inv, hostname)
        v1 == set_variable(v0, hostname, "ansible_host", pod_name)
        v2 == set_variable(v1, hostname, "ansible_connection", plugin)
        v3 == set_variable(v2, hostname, "ansible_user",
                           Get(context, "username", None))
        v4 == set_variable(v3, hostname, "ansible_password",
                           Get(context, "token", None))
        v5 == set_variable(v4, hostname, "ansible_kubernetes_port",
                           Get(context, "port", 8443))
        v6 == set_variable(v5, hostname, "ansible_kubernetes_cluster",
                           Get(context, "server", None))
        v7 == set_variable(v6, hostname, "ansible_kube_namespace", namespace)
        v8 == set_variable(v7, hostname, "ansible_kube_config_file",
                           Get(context, "kubernetes_config_file", None))
    IN  set_variable(v8, hostname, "ansible_kube_container", container_name)

(***************************************************************************)
(* The body of the pod loop of _populate.  Each operator returns the       *)
(* inventory it leaves behind and whether an exception left the loop.      *)
(***************************************************************************)
\* a container loop that hands _hostvars the container name as pod_name and
\* the pod name as container_name
ProcessContainer_ArgsSwapped(inv, namespace, pod, container, context) ==
    LET inventory_hostname == HostKey(container.name, pod.metadata.name)
        a == hostvars(inv, inventory_hostname, namespace, container.name,
                      pod.metadata.name, context)
        b == groupadd(a, namespace, inventory_hostname)
        c == groupadd(b, pod.metadata.name, inventory_hostname)
    IN  [c EXCEPT !.origin = @ \cup
            {[host |-> inventory_hostname, ctx |-> ci, namespace |-> namespace,
              pod |-> pod.metadata.name, container |-> container.name]}]

\* a container loop that leaves the variables of an existing host alone
ProcessContainer_SkipExisting(inv, namespace, pod, container, context) ==
    LET inventory_hostname == HostKey(container.name, pod.metadata.name)
        a == IF inventory_hostname \in inv.hosts
             THEN inv
             ELSE hostvars(inv, inventory_hostname, namespace,
                           pod.metadata.name, container.name, context)
        b == groupadd(a, namespace, inventory_hostname)
        c == groupadd(b, pod.metadata.name, inventory_hostname)
    IN  [c EXCEPT !.origin = @ \cup
            {[host |-> inventory_hostname, ctx |-> ci, namespace |-> namespace,
              pod |-> pod.metadata.name, container |-> container.name]}]

\* one iteration of `for container in pod.spec.containers`
ProcessContainer(inv, namespace, pod, container, context) ==
    LET inventory_hostname == HostKey(container.name, pod.metadata.name)
        a == hostvars(inv, inventory_hostname, namespace, pod.metadata.name,
                      container.name, context)
        b == groupadd(a, namespace, inventory_hostname)
        c == groupadd(b, pod.metadata.name, inventory_hostname)
    IN  [c EXCEPT !.origin = @ \cup
            {[host |-> inventory_hostname, ctx |-> ci, namespace |-> namespace,
              pod |-> pod.metadata.name, container |-> container.name]}]

RECURSIVE ProcessContainers(_, _, _, _, _)
ProcessContainers(inv, namespace, pod, context, i) ==
    IF i > Len(pod.spec.containers) THEN inv
    ELSE ProcessContainers(
             ProcessContainer(inv, namespace, pod, pod.spec.containers[i],
                              context),
             namespace, pod, context, i + 1)

\* `for key, val in pod.metadata.labels.iteritems()`
RECURSIVE ProcessLabels(_, _, _)
ProcessLabels(inv, pod_name, labels) ==
    IF labels = {} THEN inv
    ELSE LET kv == CHOOSE x \in labels : TRUE
         IN  ProcessLabels(groupadd(inv, LabelGroup(kv[1], kv[2]), pod_name),
                           pod_name, labels \ {kv})

\* a pod loop whose label loop is nested in the container loop, so that a pod
\* without containers gets no label group
ProcessPod_LabelsPerContainer(inv, namespace, pod, context) ==
    IF Contains(pod.metadata.name, "-build")
    THEN [inv |-> inv, raised |-> FALSE]
    ELSE LET a == ProcessContainers(inv, namespace, pod, context, 1)
         IN  IF pod.spec.containers = <<>>
             THEN [inv |-> a, raised |-> FALSE]
             ELSE IF "labels" \in DOMAIN pod.metadata
             THEN [inv |-> ProcessLabels(a, pod.metadata.name,
                                         pod.metadata.labels),
                   raised |-> FALSE]
             ELSE [inv |-> a, raised |-> TRUE]

\* a pod loop for which adding a host that already exists is an error
ProcessPod_RaiseOnDuplicate(inv, namespace, pod, context) ==
    IF Contains(pod.metadata.name, "-build")
    THEN [inv |-> inv, raised |-> FALSE]
    ELSE IF \E i \in DOMAIN pod.spec.containers :
                HostKey(pod.spec.containers[i].name, pod.metadata.name)
                    \in inv.hosts
    THEN [inv |-> inv, raised |-> TRUE]
    ELSE LET a == ProcessContainers(inv, namespace, pod, context, 1)
         IN  IF "labels" \in DOMAIN pod.metadata
             THEN [inv |-> ProcessLabels(a, pod.metadata.name,
                                         pod.metadata.labels),
                   raised |-> FALSE]
             ELSE [inv |-> a, raised |-> TRUE]

\* one iteration of `for pod in pods.items`
ProcessPod(inv, namespace, pod, context) ==
    IF IsBuildPod(pod.metadata.name)
    THEN [inv |-> inv, raised |-> FALSE]
    ELSE LET a == ProcessContainers(inv, namespace, pod, context, 1)
         IN  IF "labels" \in DOMAIN pod.metadata
             THEN [inv |-> ProcessLabels(a, pod.metadata.name,
                                         pod.metadata.labels),
                   raised |-> FALSE]
             \* labels is None: None.iteritems raises AttributeError
             ELSE [inv |-> a, raised |-> TRUE]

\* a pod loop that empties the inventory when an iteration raises
RECURSIVE ProcessPods_Rollback(_, _, _, _, _)
ProcessPods_Rollback(inv, namespace, items, context, i) ==
    IF i > Len(items) THEN [inv |-> inv, raised |-> FALSE]
    ELSE LET r == ProcessPod(inv, namespace, items[i], context)
         IN  IF r.raised THEN [inv |-> EmptyInventory, raised |-> TRUE]
             ELSE ProcessPods_Rollback(r.inv, namespace, items, context, i + 1)

RECURSIVE ProcessPods(_, _, _, _, _)
ProcessPods(inv, namespace, items, context, i) ==
    IF i > Len(items) THEN [inv |-> inv, raised |-> FALSE]
    ELSE LET r == ProcessPod(inv, namespace, items[i], context)
         IN  IF r.raised THEN r
             ELSE ProcessPods(r.inv, namespace, items, context, i + 1)

(***************************************************************************)
(* The body of _kube_service_group.                                        *)
(***************************************************************************)
\* one iteration of `for a in s.addresses`
ProcessAddress(inv, service_name, a) ==
    IF IsPodAddress(a)
    THEN [add_child(inv, service_name, a.target_ref.name)
             EXCEPT !.service_children = @ \cup {<<service_name, a>>}]
    ELSE inv

RECURSIVE ProcessAddresses(_, _, _, _)
ProcessAddresses(inv, service_name, addresses, i) ==
    IF i > Len(addresses) THEN inv
    ELSE ProcessAddresses(ProcessAddress(inv, service_name, addresses[i]),
                          service_name, addresses, i + 1)

RECURSIVE ProcessSubsets(_, _, _, _)
ProcessSubsets(inv, service_name, subsets, i) ==
    IF i > Len(subsets) THEN inv
    ELSE ProcessSubsets(
             ProcessAddresses(inv, service_name, subsets[i].addresses, 1),
             service_name, subsets, i + 1)

\* one iteration of `for e in endpoints.items`
ProcessEndpoint(inv, e) ==
    LET service_name == e.metadata.name
        a == add_group(inv, service_name)
    IN  IF "subsets" \in DOMAIN e
        THEN [inv |-> ProcessSubsets(a, service_name, e.subsets, 1),
              raised |-> FALSE]
        \* subsets is None: iterating None raises TypeError
        ELSE [inv |-> a, raised |-> TRUE]

RECURSIVE ProcessEndpoints(_, _)
ProcessEndpoints(inv, items) ==
    IF items = <<>> THEN [inv |-> inv, raised |-> FALSE]
    ELSE LET r == ProcessEndpoint(inv, Head(items))
         IN  IF r.raised THEN r ELSE ProcessEndpoints(r.inv, Tail(items))

(***************************************************************************)
(* The run: parse, then _populate's loops.                                 *)
(***************************************************************************)
Init ==
    /\ pc = "parse"
    /\ config = <<>>
    /\ plugin = None
    /\ ci = 0
    /\ ni = 0
    /\ api = 0
    /\ inventory = EmptyInventory
    /\ display = <<>>
    /\ connects = <<>>
    /\ api_calls = <<>>
    /\ returned = {}
    /\ loads = <<>>

Context == config.contexts[ci]
Namespace == Context.namespaces[ni]

\* the outer for loop moves to the next context, or _populate returns
NextContext ==
    IF ci < Len(config.contexts)
    THEN /\ ci' = ci + 1
         /\ ni' = 0
         /\ pc' = "connect"
    ELSE /\ pc' = "done"
         /\ UNCHANGED <<ci, ni>>

\* a namespace loop that ends the run on an empty namespaces list
NextNamespace_StopOnEmpty ==
    IF Context.namespaces = <<>>
    THEN /\ pc' = "done"
         /\ UNCHANGED <<ci, ni>>
    ELSE IF ni < Len(Context.namespaces)
    THEN /\ ni' = ni + 1
         /\ pc' = "pods"
         /\ UNCHANGED ci
    ELSE NextContext

\* the inner for loop moves to the next namespace, or is exhausted
NextNamespace ==
    IF ni < Len(Context.namespaces)
    THEN /\ ni' = ni + 1
         /\ pc' = "pods"
         /\ UNCHANGED ci
    ELSE NextContext

\* handlers that report the exception and raise it again
Abort_Reraise(error) ==
    /\ display' = fail(display, "_populate", error)
    /\ pc' = "raised"
    /\ UNCHANGED <<ci, ni>>

\* an exception reached the handlers that wrap the loops of _populate
Abort(error) ==
    /\ display' = fail(display, "_populate", error)
    /\ pc' = "done"
    /\ UNCHANGED <<ci, ni>>

\* parse: load_from_file raises, and parse raises AnsibleParserError
ParseRaises ==
    /\ pc = "parse"
    /\ pc' = "raised"
    /\ UNCHANGED <<config, plugin, ci, ni, api, inventory, display, connects,
                   api_calls, returned, loads>>

\* parse: load_from_file returns config_data, and _populate is entered
Parse ==
    /\ pc = "parse"
    /\ \E c \in Configs : config' = c
    /\ pc' = "populate"
    /\ UNCHANGED <<plugin, ci, ni, api, inventory, display, connects,
                   api_calls, returned, loads>>

\* _populate up to the head of `for context in config_data.get('contexts')`
Populate ==
    /\ pc = "populate"
    /\ plugin' = Get(config, "plugin", "kubernetes")
    /\ IF "contexts" \in DOMAIN config
       THEN /\ NextContext
            /\ UNCHANGED display
       \* iterating None raises TypeError
       ELSE Abort("TypeError")
    /\ UNCHANGED <<config, api, inventory, connects, api_calls, returned,
                   loads>>

\* a chain that looks at kubernetes_config_file before local_kube_config
Strategy_FileFirst(context) ==
    IF "kubernetes_config_file" \in DOMAIN context
    THEN "load_kube_config(config_file)"
    ELSE IF Get(context, "local_kube_config", FALSE)
    THEN "load_kube_config()"
    ELSE "KubeConfigLoader"

\* the branch of the if / elif / else chain of _connect taken for a context
Strategy(context) ==
    IF Get(context, "local_kube_config", FALSE)
    THEN "load_kube_config()"
    ELSE IF "kubernetes_config_file" \in DOMAIN context
    THEN "load_kube_config(config_file)"
    ELSE "KubeConfigLoader"

\* what _connect's try block can do for a context: complete, or raise
ConnectOutcomes(context) ==
    IF Strategy(context) = "load_kube_config()"
    THEN {"ok", "ConfigException"}      \* config.load_kube_config()
    ELSE IF Strategy(context) = "load_kube_config(config_file)"
    THEN {"ok", "ConfigException"}      \* config.load_kube_config(config_file)
    ELSE IF context.namespaces = <<>>
    THEN {"IndexError"}                 \* context.get('namespaces')[0]
    ELSE {"ok", "ConfigException"}      \* KubeConfigLoader.load_and_set()

\* self._connect(context), then the head of the namespace loop
Connect ==
    /\ pc = "connect"
    /\ \E outcome \in ConnectOutcomes(Context) :
        /\ connects' = Append(connects, outcome)
        /\ loads' = Append(loads, [ctx |-> ci, loader |-> Strategy(Context)])
        /\ IF outcome = "ok"
           THEN /\ api' = ci
                /\ UNCHANGED display
           ELSE /\ display' = fail(display, "_connect", outcome)
                /\ UNCHANGED api
    /\ NextNamespace
    /\ UNCHANGED <<config, plugin, inventory, api_calls, returned>>

Call(method, ok) ==
    [ctx |-> ci, ns |-> ni, namespace |-> Namespace, api |-> api,
     method |-> method, ok |-> ok]

Returned(items) ==
    {[ctx |-> ci, namespace |-> Namespace, item |-> items[i], pos |-> i] :
        i \in 1..Len(items)}

\* self.api.list_namespaced_pod fails: self.api is unset (AttributeError)
PodsNoApi ==
    /\ pc = "pods"
    /\ api = 0
    /\ Abort("AttributeError")
    /\ UNCHANGED <<config, plugin, api, inventory, connects, api_calls,
                   returned, loads>>

\* self.api.list_namespaced_pod raises ApiException
PodsRaise ==
    /\ pc = "pods"
    /\ api # 0
    /\ api_calls' = Append(api_calls, Call("list_namespaced_pod", FALSE))
    /\ Abort("ApiException")
    /\ UNCHANGED <<config, plugin, api, inventory, connects, returned, loads>>

\* self.api.list_namespaced_pod returns, and the pod loop runs
Pods ==
    /\ pc = "pods"
    /\ api # 0
    /\ \E items \in PodListings :
        LET r == ProcessPods(inventory, Namespace, items, Context, 1)
        IN  /\ api_calls' =
                   Append(api_calls, Call("list_namespaced_pod", TRUE))
            /\ returned' = returned \cup Returned(items)
            /\ inventory' = r.inv
            /\ IF r.raised
               THEN Abort("AttributeError")
               ELSE /\ pc' = "endpoints"
                    /\ UNCHANGED <<ci, ni, display>>
    /\ UNCHANGED <<config, plugin, api, connects, loads>>

\* a _kube_service_group that lets the listing's exception reach _populate
EndpointsRaise_Propagates ==
    /\ pc = "endpoints"
    /\ api_calls' =
           Append(api_calls, Call("list_namespaced_endpoints", FALSE))
    /\ Abort("ApiException")
    /\ UNCHANGED <<config, plugin, api, inventory, connects, returned, loads>>

\* self._kube_service_group(namespace): the listing raises ApiException
EndpointsRaise ==
    /\ pc = "endpoints"
    /\ api_calls' =
           Append(api_calls, Call("list_namespaced_endpoints", FALSE))
    /\ display' = fail(display, "_kube_service_group", "ApiException")
    /\ NextNamespace
    /\ UNCHANGED <<config, plugin, api, inventory, connects, returned, loads>>

\* self._kube_service_group(namespace): the listing returns
Endpoints ==
    /\ pc = "endpoints"
    /\ \E items \in EndpointListings :
        LET r == ProcessEndpoints(inventory, items)
        IN  /\ api_calls' = Append(api_calls,
                   Call("list_namespaced_endpoints", TRUE))
            /\ returned' = returned \cup Returned(items)
            /\ inventory' = r.inv
            /\ display' = IF r.raised
                          THEN fail(display, "_kube_service_group", "TypeError")
                          ELSE display
    /\ NextNamespace
    /\ UNCHANGED <<config, plugin, api, connects, loads>>

Next ==
    \/ ParseRaises
    \/ Parse
    \/ Populate
    \/ Connect
    \/ PodsNoApi
    \/ PodsRaise
    \/ Pods
    \/ EndpointsRaise
    \/ Endpoints

Spec == Init /\ [][Next]_vars

\* the run is sequential and nothing blocks: a step that can be taken is taken
FairSpec == Spec /\ WF_vars(Next)

(***************************************************************************)
(* Vocabulary of the properties.                                           *)
(***************************************************************************)
Done == pc = "done"

HasContexts == "contexts" \in DOMAIN config

PodsReturned == {r \in returned : "spec" \in DOMAIN r.item}

EndpointsReturned == {r \in returned : "spec" \notin DOMAIN r.item}

ConnectFailed(i) == i \in DOMAIN connects /\ connects[i] # "ok"

Resolved(i) == i \in DOMAIN connects

PodsListed(i, n) ==
    \E k \in DOMAIN api_calls :
        /\ api_calls[k].method = "list_namespaced_pod"
        /\ api_calls[k].ctx = i
        /\ api_calls[k].ns = n

Enumerated(i) ==
    \A n \in DOMAIN config.contexts[i].namespaces : PodsListed(i, n)

Reported(where, i) ==
    \E k \in DOMAIN display :
        display[k].raised_in = where /\ display[k].ctx = i

\* the addresses of an endpoint object, over all its subsets
Addresses(e) ==
    IF "subsets" \in DOMAIN e
    THEN UNION {{e.subsets[i].addresses[j] :
                    j \in DOMAIN e.subsets[i].addresses} :
                i \in DOMAIN e.subsets}
    ELSE {}

\* no two pods the listings returned share a name
PodNamesDistinct ==
    \A a, b \in PodsReturned :
        a.item.metadata.name = b.item.metadata.name
            => (a.ctx = b.ctx /\ a.namespace = b.namespace)

(***************************************************************************)
(* C1.  When _connect fails for a context, the failure is reported and     *)
(* every later context of the configured list is still resolved and       *)
(* enumerated.  The code does not do this: see C1_FirstContextFails.       *)
(***************************************************************************)
C1_ConnectFailureIsolated ==
    Done =>
        \A i \in DOMAIN connects :
            ConnectFailed(i) =>
                /\ Reported("_connect", i)
                /\ \A j \in (i + 1)..Len(config.contexts) :
                       Resolved(j) /\ (connects[j] = "ok" => Enumerated(j))

(***************************************************************************)
(* C2.  When the pod listing of a namespace fails with an API error in     *)
(* context c, every context after c is still resolved and has all of its   *)
(* namespaces enumerated.  The code does not do this.                      *)
(***************************************************************************)
C2_PodListingFailureIsolated ==
    Done =>
        \A k \in DOMAIN api_calls :
            (api_calls[k].method = "list_namespaced_pod" /\ ~api_calls[k].ok)
                => \A j \in (api_calls[k].ctx + 1)..Len(config.contexts) :
                       Resolved(j) /\ Enumerated(j)

(***************************************************************************)
(* C3.  For every pod a listing returned whose name contains "-build", no  *)
(* host was added for any of its containers, and no namespace or pod group *)
(* has such a host as a child.                                             *)
(***************************************************************************)
C3_BuildPodsYieldNoHost ==
    \A r \in PodsReturned :
        Contains(r.item.metadata.name, "-build") =>
            /\ \A e \in inventory.origin : e.pod # r.item.metadata.name
            /\ \A i \in DOMAIN r.item.spec.containers :
                   LET key == r.item.spec.containers[i].name \o "_"
                                  \o r.item.metadata.name
                   IN  /\ key \notin inventory.hosts
                       /\ <<r.namespace, key>> \notin inventory.children
                       /\ <<r.item.metadata.name, key>>
                              \notin inventory.children

\* a finished run that was handed a build pod and added hosts for other pods
C3_Witness ==
    /\ Done
    /\ inventory.hosts # {}
    /\ \E r \in PodsReturned : Contains(r.item.metadata.name, "-build")

(***************************************************************************)
(* C4 as stated.  After a run without failures, for every pod a listing    *)
(* returned and every label (k, v) on it, the group "k_v" exists and has   *)
(* the pod's name as a child, whether or not the pod produced a host.      *)
(***************************************************************************)
C4_LabelGroupsForEveryPod ==
    (Done /\ display = <<>>) =>
        \A r \in PodsReturned :
            "labels" \in DOMAIN r.item.metadata =>
                \A kv \in r.item.metadata.labels :
                    /\ (kv[1] \o "_" \o kv[2]) \in inventory.groups
                    /\ <<kv[1] \o "_" \o kv[2], r.item.metadata.name>>
                           \in inventory.children

(***************************************************************************)
(* C4 as amended.  The same, for every returned pod whose name does not    *)
(* contain "-build": the label loop sits under the build-pod filter.       *)
(***************************************************************************)
C4_LabelGroupsForNonBuildPods ==
    (Done /\ display = <<>>) =>
        \A r \in PodsReturned :
            ("labels" \in DOMAIN r.item.metadata
                 /\ ~Contains(r.item.metadata.name, "-build")) =>
                \A kv \in r.item.metadata.labels :
                    /\ (kv[1] \o "_" \o kv[2]) \in inventory.groups
                    /\ <<kv[1] \o "_" \o kv[2], r.item.metadata.name>>
                           \in inventory.children

\* a run without failures in which a labelled pod without containers was
\* returned, produced no host, and is the child of its label group
C4_Witness ==
    /\ Done
    /\ display = <<>>
    /\ \E r \in PodsReturned :
           /\ r.item.spec.containers = <<>>
           /\ "labels" \in DOMAIN r.item.metadata
           /\ r.item.metadata.labels # {}
           /\ \A e \in inventory.origin : e.pod # r.item.metadata.name
    /\ <<"tier_db", "job-1">> \in inventory.children

(***************************************************************************)
(* C5.  Every host key equals container_name + "_" + pod_name, and when    *)
(* the pods the listings returned have pairwise distinct names, two        *)
(* distinct (pod, container) pairs never produce the same host key.        *)
(***************************************************************************)
C5_HostKeyUnique ==
    /\ \A e \in inventory.origin :
           /\ e.host = e.container \o "_" \o e.pod
           /\ e.host \in inventory.hosts
    /\ PodNamesDistinct =>
           \A e1, e2 \in inventory.origin : e1.host = e2.host => e1 = e2

\* distinct pod names, and one container name used by two pods
C5_Witness ==
    /\ Done
    /\ PodNamesDistinct
    /\ \E e1, e2 \in inventory.origin :
           /\ e1.container = e2.container
           /\ e1.pod # e2.pod
           /\ e1.host # e2.host

(***************************************************************************)
(* C6.  At the end of any run, also one cut short by a failure, every host *)
(* of the inventory is a child of the group named after the namespace it   *)
(* was enumerated from and of the group named after its pod.               *)
(***************************************************************************)
C6_HostsAreGrouped ==
    Done =>
        /\ \A h \in inventory.hosts : \E e \in inventory.origin : e.host = h
        /\ \A e \in inventory.origin :
               /\ e.namespace \in inventory.groups
               /\ <<e.namespace, e.host>> \in inventory.children
               /\ e.pod \in inventory.groups
               /\ <<e.pod, e.host>> \in inventory.children

\* a run cut short inside the pod loop, after a host had been added
C6_Witness ==
    /\ Done
    /\ inventory.hosts # {}
    /\ \E k \in DOMAIN display :
           display[k].raised_in = "_populate"
               /\ display[k].error = "AttributeError"

(***************************************************************************)
(* C7.  For every endpoint object a successful endpoint listing returned,  *)
(* the group named after it exists after the run, and every address whose  *)
(* target_ref.kind is "Pod" has target_ref.name as a child of that group.  *)
(* The code does not do this when an earlier endpoint has no subsets.      *)
(***************************************************************************)
C7_ServiceGroupForEveryEndpoint ==
    Done =>
        \A r \in EndpointsReturned :
            /\ r.item.metadata.name \in inventory.groups
            /\ \A a \in Addresses(r.item) :
                   ("target_ref" \in DOMAIN a /\ a.target_ref.kind = "Pod")
                       => <<r.item.metadata.name, a.target_ref.name>>
                              \in inventory.children

(***************************************************************************)
(* C8.  The endpoint grouper never adds a child for an address that lacks  *)
(* a target_ref or whose target_ref.kind is not exactly "Pod".  The code   *)
(* tests `"Pod" in kind`, which a kind such as "PodTemplate" passes.       *)
(***************************************************************************)
C8_OnlyPodKindAddresses ==
    \A sc \in inventory.service_children :
        /\ "target_ref" \in DOMAIN sc[2]
        /\ sc[2].target_ref.kind = "Pod"

(***************************************************************************)
(* C9.  A configuration object without the contexts key makes parse raise: *)
(* the run never completes with the error merely reported.  The code       *)
(* reports the TypeError and completes.                                    *)
(***************************************************************************)
C9_MissingContextsIsFatal ==
    (pc \notin {"parse", "raised"} /\ ~HasContexts) =>
        (pc # "done" /\ display = <<>>)

(***************************************************************************)
(* C10.  For a configuration with a contexts sequence, whatever fails,     *)
(* _populate returns without propagating an error, and when no context     *)
(* connected the final inventory has no hosts and no groups.               *)
(***************************************************************************)
NoContextConnected == \A i \in DOMAIN connects : connects[i] # "ok"

C10_PopulateAlwaysCompletes ==
    /\ (pc = "populate" /\ HasContexts) ~> Done
    /\ [][pc # "parse" => pc' # "raised"]_vars
    /\ []((Done /\ HasContexts /\ NoContextConnected)
              => (inventory.hosts = {} /\ inventory.groups = {}))

\* two contexts were attempted, both failed to connect, the run completed
C10_Witness ==
    /\ Done
    /\ Len(connects) >= 2
    /\ NoContextConnected
    /\ Len(display) >= 2
    /\ inventory.hosts = {}

(***************************************************************************)
(* C11.  _connect calls exactly one credential loader per context, chosen  *)
(* by priority: the default local credentials when local_kube_config is    *)
(* true, else the credentials file when kubernetes_config_file is set,     *)
(* else the synthesized inline credentials; also when the loader fails.    *)
(***************************************************************************)
C11_OneStrategyByPriority ==
    /\ Len(loads) = Len(connects)
    /\ \A k \in DOMAIN loads :
           LET c == config.contexts[k]
           IN  /\ loads[k].ctx = k
               /\ loads[k].loader =
                      IF "local_kube_config" \in DOMAIN c /\ c.local_kube_config
                      THEN "load_kube_config()"
                      ELSE IF "kubernetes_config_file" \in DOMAIN c
                      THEN "load_kube_config(config_file)"
                      ELSE "KubeConfigLoader"

\* a context that sets local_kube_config and a credentials file failed to
\* connect, and only the default local credentials had been tried
C11_Witness ==
    /\ Done
    /\ \E k \in DOMAIN loads :
           /\ config.contexts[k].local_kube_config
           /\ "kubernetes_config_file" \in DOMAIN config.contexts[k]
           /\ connects[k] # "ok"
           /\ loads[k].loader = "load_kube_config()"
           /\ \A j \in DOMAIN loads : loads[j].ctx = k => j = k

\* the variables _hostvars writes for the (pod, container) pair of origin
\* entry e, read off the configuration: the context's own fields, the port
\* defaulting to 8443, the plugin defaulting to "kubernetes", None for a field
\* the context does not set
ExpectedVars(e) ==
    LET c == config.contexts[e.ctx]
    IN  [ansible_host |-> e.pod,
         ansible_connection |->
             IF "plugin" \in DOMAIN config THEN config.plugin ELSE "kubernetes",
         ansible_user |->
             IF "username" \in DOMAIN c THEN c.username ELSE None,
         ansible_password |-> IF "token" \in DOMAIN c THEN c.token ELSE None,
         ansible_kubernetes_port |->
             IF "port" \in DOMAIN c THEN c.port ELSE 8443,
         ansible_kubernetes_cluster |->
             IF "server" \in DOMAIN c THEN c.server ELSE None,
         ansible_kube_namespace |-> e.namespace,
         ansible_kube_config_file |->
             IF "kubernetes_config_file" \in DOMAIN c
             THEN c.kubernetes_config_file ELSE None,
         ansible_kube_container |-> e.container]

\* the names of the variables of a host
HostVarNames ==
    {"ansible_host", "ansible_connection", "ansible_user", "ansible_password",
     "ansible_kubernetes_port", "ansible_kubernetes_cluster",
     "ansible_kube_namespace", "ansible_kube_config_file",
     "ansible_kube_container"}

RaisesAlone(item) ==
    IF "spec" \in DOMAIN item
    THEN /\ ~Contains(item.metadata.name, "-build")
         /\ "labels" \notin DOMAIN item.metadata
    ELSE "subsets" \notin DOMAIN item

\* the loop over the listing that returned r got as far as r: no item
\* before r in that listing raised
Touched(R, r) ==
    \A q \in R :
        (/\ q.ctx = r.ctx
         /\ q.namespace = r.namespace
         /\ ("spec" \in DOMAIN q.item) = ("spec" \in DOMAIN r.item)
         /\ q.pos < r.pos) => ~RaisesAlone(q.item)

\* r was processed before: the same object, in a namespace of the same name,
\* was returned by an earlier listing whose loop got as far as it
ProcessedBefore(r) ==
    \E q \in returned :
        /\ q.item = r.item
        /\ q.namespace = r.namespace
        /\ Touched(returned, q)

(***************************************************************************)
(* C13.  Processing again is a no-op: a step that processes a listing in   *)
(* which every pod or endpoint its loop reaches was processed before, in a *)
(* namespace of the same name, leaves hosts, groups and memberships as     *)
(* they were; and unless one of those objects raises by itself (labels or  *)
(* subsets None) the step reports no error.                                *)
(***************************************************************************)
C13_ReprocessingIsNoOp ==
    [][(/\ returned' # returned
        /\ \A r \in returned' \ returned :
               Touched(returned', r) => ProcessedBefore(r))
       => /\ inventory'.hosts = inventory.hosts
          /\ inventory'.groups = inventory.groups
          /\ inventory'.children = inventory.children
          /\ (\A r \in returned' \ returned : ~RaisesAlone(r.item))
                 => display' = display]_vars

\* two contexts returned the same pods and the same endpoints for a namespace
\* of the same name, and the run completed without an error
C13_Witness ==
    /\ Done
    /\ display = <<>>
    /\ inventory.hosts # {}
    /\ \E r \in PodsReturned : r.ctx = 2
    /\ \E r \in EndpointsReturned : r.ctx = 2
    /\ \A r \in returned :
           r.ctx = 2 => \E q \in returned :
                            /\ q.ctx = 1
                            /\ q.item = r.item
                            /\ q.namespace = r.namespace

(***************************************************************************)
(* C14 as stated.  Listings are issued, and hosts created, only for        *)
(* contexts whose own _connect succeeded: every listing call in the        *)
(* journal was made while iterating a context whose resolution succeeded   *)
(* and on the client that resolution created, and every host comes from    *)
(* such a context.  The code does not do this: a failed _connect leaves    *)
(* self.api as the previous context's client and the namespace loop runs   *)
(* regardless.                                                             *)
(***************************************************************************)
C14_EnumeratedOnlyAfterOwnResolution ==
    /\ \A k \in DOMAIN api_calls :
           /\ connects[api_calls[k].ctx] = "ok"
           /\ api_calls[k].api = api_calls[k].ctx
    /\ \A e \in inventory.origin : connects[e.ctx] = "ok"

(***************************************************************************)
(* C15.  The inventory only grows: in every step the hosts, the groups and *)
(* the group-child memberships after the step include those before it, so  *)
(* nothing added for an earlier context or namespace is lost to a later    *)
(* failure.                                                                *)
(***************************************************************************)
C15_InventoryOnlyGrows ==
    [][/\ inventory.hosts \subseteq inventory'.hosts
       /\ inventory.groups \subseteq inventory'.groups
       /\ inventory.children \subseteq inventory'.children]_vars

\* the run ended on a failure in the second context, and a host added under
\* the first context is still in the inventory with its groups
C15_Witness ==
    /\ Done
    /\ \E k \in DOMAIN display :
           display[k].raised_in = "_populate" /\ display[k].ctx = 2
    /\ \E e \in inventory.origin :
           /\ e.ctx = 1
           /\ e.host \in inventory.hosts
           /\ <<e.namespace, e.host>> \in inventory.children

\* an endpoint listing was issued for namespace n of context i
EndpointsListed(i, n) ==
    \E k \in DOMAIN api_calls :
        /\ api_calls[k].method = "list_namespaced_endpoints"
        /\ api_calls[k].ctx = i
        /\ api_calls[k].ns = n

(***************************************************************************)
(* C16.  A failure of the endpoint grouper is reported and swallowed.  The *)
(* step in which it happens appends one "_kube_service_group" message,     *)
(* keeps every host, group and membership, and moves on to the pods of the *)
(* next namespace, else to the next context, else to the end of the run.   *)
(* And a run whose only failures were endpoint failures has resolved every *)
(* context and listed the pods and endpoints of every namespace.           *)
(***************************************************************************)
C16_EndpointFailureSwallowed ==
    /\ [][(pc = "endpoints" /\ display' # display)
          => /\ Len(display') = Len(display) + 1
             /\ SubSeq(display', 1, Len(display)) = display
             /\ display'[Len(display')].raised_in = "_kube_service_group"
             /\ display'[Len(display')].ctx = ci
             /\ inventory'.hosts = inventory.hosts
             /\ inventory.groups \subseteq inventory'.groups
             /\ inventory.children \subseteq inventory'.children
             /\ IF ni < Len(config.contexts[ci].namespaces)
                THEN pc' = "pods" /\ ci' = ci /\ ni' = ni + 1
                ELSE IF ci < Len(config.contexts)
                THEN pc' = "connect" /\ ci' = ci + 1
                ELSE pc' = "done"]_vars
    /\ []((/\ Done
           /\ HasContexts
           /\ \A k \in DOMAIN display :
                  display[k].raised_in = "_kube_service_group")
          => /\ Len(connects) = Len(config.contexts)
             /\ \A i \in DOMAIN config.contexts :
                    \A n \in DOMAIN config.contexts[i].namespaces :
                        PodsListed(i, n) /\ EndpointsListed(i, n))

\* the endpoint grouper failed in the first context, nothing else failed, and
\* the second context went on to produce a host
C16_Witness ==
    /\ Done
    /\ \E k \in DOMAIN display :
           display[k].raised_in = "_kube_service_group" /\ display[k].ctx = 1
    /\ \A k \in DOMAIN display : display[k].raised_in = "_kube_service_group"
    /\ \E e \in inventory.origin : e.ctx = 2

\* the listing calls were issued in the order of the loops: contexts in
\* configured order, namespaces in list order, and for one namespace the pod
\* listing before the endpoint listing
CallsInOrder ==
    \A k, l \in DOMAIN api_calls :
        k < l =>
            LET a == api_calls[k]
                b == api_calls[l]
            IN  \/ a.ctx < b.ctx
                \/ a.ctx = b.ctx /\ a.ns < b.ns
                \/ /\ a.ctx = b.ctx
                   /\ a.ns = b.ns
                   /\ a.method = "list_namespaced_pod"
                   /\ b.method = "list_namespaced_endpoints"

\* an endpoint listing follows a pod listing of the same namespace that
\* returned and whose pods were all processed
EndpointsAfterPods ==
    \A l \in DOMAIN api_calls :
        api_calls[l].method = "list_namespaced_endpoints" =>
            /\ \E k \in 1..(l - 1) :
                   /\ api_calls[k].method = "list_namespaced_pod"
                   /\ api_calls[k].ctx = api_calls[l].ctx
                   /\ api_calls[k].ns = api_calls[l].ns
                   /\ api_calls[k].ok
            /\ \A r \in PodsReturned :
                   (r.ctx = api_calls[l].ctx
                        /\ r.namespace = api_calls[l].namespace)
                       => /\ ~RaisesAlone(r.item)
                          /\ \/ Contains(r.item.metadata.name, "-build")
                             \/ \A j \in DOMAIN r.item.spec.containers :
                                    r.item.spec.containers[j].name \o "_"
                                        \o r.item.metadata.name
                                        \in inventory.hosts

\* once the run has left a namespace whose pod listing returned, exactly one
\* endpoint listing has been issued for it
EndpointsOncePerListedNamespace ==
    \A k \in DOMAIN api_calls :
        (/\ api_calls[k].method = "list_namespaced_pod"
         /\ api_calls[k].ok
         /\ ~(pc = "endpoints" /\ ci = api_calls[k].ctx /\ ni = api_calls[k].ns))
        => Cardinality({l \in DOMAIN api_calls :
               /\ api_calls[l].method = "list_namespaced_endpoints"
               /\ api_calls[l].ctx = api_calls[k].ctx
               /\ api_calls[l].ns = api_calls[k].ns}) = 1

(***************************************************************************)
(* C17 as stated.  The listing calls are issued in loop order, an endpoint *)
(* listing is issued only after every pod of its namespace was processed,  *)
(* and exactly one endpoint listing is issued for every namespace whose    *)
(* pod listing succeeded.  The last part fails in the code: a pod whose    *)
(* labels are None ends the run before _kube_service_group is called.      *)
(***************************************************************************)
C17_StrictlyOrdered ==
    /\ CallsInOrder
    /\ EndpointsAfterPods
    /\ EndpointsOncePerListedNamespace

(***************************************************************************)
(* C18.  A host key collision is silent and the last writer wins.  In a    *)
(* step that processes a (pod, container) pair whose key an earlier pair   *)
(* already produced, the key stays one host, its variables become those    *)
(* written for the new pair, it is a child of the namespace group and the  *)
(* pod group of the new pair and of every earlier pair with that key, and  *)
(* the step reports no error unless a pod of the listing raises by itself  *)
(* (labels None).                                                          *)
(***************************************************************************)
C18_CollisionLastWriterWins ==
    [][\A e \in inventory'.origin \ inventory.origin :
           (\E e0 \in inventory.origin : e0.host = e.host)
           => /\ e.host \in inventory.hosts
              /\ DOMAIN inventory'.vars = inventory'.hosts
              /\ inventory'.vars[e.host] = ExpectedVars(e)
              /\ \A e0 \in inventory'.origin :
                     e0.host = e.host
                     => /\ <<e0.namespace, e.host>> \in inventory'.children
                        /\ <<e0.pod, e.host>> \in inventory'.children
              /\ (\A r \in returned' \ returned : ~RaisesAlone(r.item))
                     => display' = display]_vars

\* pod web-1 was found in ns1 under the first context and in ns2 under the
\* second: one host, carrying the second pair's variables, in both namespace
\* groups, and no error
C18_Witness ==
    /\ Done
    /\ display = <<>>
    /\ \E e1, e2 \in inventory.origin :
           /\ e1.host = e2.host
           /\ e1.ctx < e2.ctx
           /\ e1.namespace # e2.namespace
           /\ inventory.vars[e1.host]["ansible_kube_namespace"] = e2.namespace
           /\ <<e1.namespace, e1.host>> \in inventory.children
           /\ <<e2.namespace, e1.host>> \in inventory.children

(***************************************************************************)
(* C19.  A context with an empty namespaces list contributes nothing and   *)
(* does not stop the run: no listing call and no host comes from such a    *)
(* context, and the step that resolves it, with whatever loader and        *)
(* whether it succeeds or fails, leaves the journal of listing calls and   *)
(* the inventory as they were and moves on to the next context, or to the  *)
(* end of the run after the last one.                                      *)
(***************************************************************************)
C19_EmptyNamespacesContributeNothing ==
    /\ [](\A k \in DOMAIN api_calls :
              config.contexts[api_calls[k].ctx].namespaces # <<>>)
    /\ [](\A e \in inventory.origin :
              config.contexts[e.ctx].namespaces # <<>>)
    /\ [][(pc = "connect" /\ config.contexts[ci].namespaces = <<>>)
          => /\ api_calls' = api_calls
             /\ returned' = returned
             /\ inventory' = inventory
             /\ Len(connects') = Len(connects) + 1
             /\ IF ci < Len(config.contexts)
                THEN pc' = "connect" /\ ci' = ci + 1
                ELSE pc' = "done"]_vars

\* a first context with an empty namespaces list was resolved successfully,
\* and the second context went on to produce a host
C19_Witness ==
    /\ Done
    /\ Len(connects) = 2
    /\ config.contexts[1].namespaces = <<>>
    /\ connects[1] = "ok"
    /\ \A k \in DOMAIN api_calls : api_calls[k].ctx = 2
    /\ \E e \in inventory.origin : e.ctx = 2

====
